---------------------------- MODULE Spec2Model ----------------------------
(***************************************************************************)
(* The Spotify authorization-code gateway of src/index.js as a state       *)
(* machine.                                                                *)
(*                                                                         *)
(* A request enters the Express middleware chain in registration order:    *)
(* the environment guard (l.63-73), the five GET routes (l.81-232) and the *)
(* terminal 404 handler (l.235-240).  The requests considered are the ones *)
(* that cors() and express.json() (l.11-12) hand on to the guard.  The two *)
(* token routes suspend once, at `await requestSpotifyTokens(body)`, and   *)
(* are resumed by the outcome of that outbound call; every other handler   *)
(* runs to its response in one step.                                       *)
(*                                                                         *)
(* Values are JavaScript values: Undefined, Null and the empty string are  *)
(* falsy, JSON values are written as their JSON text, an HTTP status is a  *)
(* number.                                                                 *)
(***************************************************************************)
EXTENDS Integers, Sequences, FiniteSets, Bags, TLC

VARIABLES
    config,     \* CLIENT_ID, CLIENT_SECRET, REDIRECT_URI as read at start-up
    inflight,   \* bag of handlers suspended at `await requestSpotifyTokens`
    net,        \* bag of outbound calls to the token endpoint not yet settled
    last,       \* the most recently completed request and its response
    issued      \* history: every state value a /login redirect has carried

vars == <<config, inflight, net, last, issued>>

\* Largest number of requests suspended on the provider at the same time.
MaxInFlight == 2

\* generateState(length = 16)
StateLength == 16

-----------------------------------------------------------------------------
(* JavaScript values *)

Undefined == "<undefined>"
Null == "<null>"
JsonTrue == "true"
JsonFalse == "false"

\* if (v), !v, v || w, v && w: undefined, null and "" are falsy.
Truthy(v) == v \notin {Undefined, Null, ""}

\* v || w
Or(v, w) == IF Truthy(v) THEN v ELSE w

-----------------------------------------------------------------------------
(* Configuration *)

TestClientId == "test_client_id"
TestClientSecret == "test_client_secret"
TestRedirectUri == "http://localhost:3000/callback"

\* process.env.X is undefined when unset, and may be set to the empty string.
Configs ==
    [CLIENT_ID : {Undefined, "", TestClientId},
     CLIENT_SECRET : {Undefined, "", TestClientSecret},
     REDIRECT_URI : {Undefined, "", TestRedirectUri}]

SCOPES ==
    "user-read-private user-read-email playlist-read-private "
    \o "playlist-modify-public playlist-modify-private user-library-read "
    \o "user-top-read user-read-playback-state user-modify-playback-state"

AuthorizeUrl == "https://accounts.spotify.com/authorize"
TokenUrl == "https://accounts.spotify.com/api/token"

-----------------------------------------------------------------------------
(* generateState *)

HexDigits ==
    <<"0", "1", "2", "3", "4", "5", "6", "7",
      "8", "9", "a", "b", "c", "d", "e", "f">>

HexByte(b) == HexDigits[(b \div 16) + 1] \o HexDigits[(b % 16) + 1]

RECURSIVE ToHex(_)
\* Buffer.toString('hex'): two lower-case digits per byte.
ToHex(bytes) ==
    IF bytes = <<>> THEN "" ELSE HexByte(Head(bytes)) \o ToHex(Tail(bytes))

\* The byte values the random source is taken to produce.
ByteValues == {165, 255}

\* crypto.randomBytes(length): here the buffers filled with one byte value.
randomBytes(length) == {[i \in 1..length |-> b] : b \in ByteValues}

\* Mutant of generateState: the buffer is dropped and the state is empty.
generateStateEmpty(buffer) == ToHex(SubSeq(buffer, 1, 0))

\* generateState, given the buffer crypto.randomBytes returned.
generateState(buffer) == ToHex(buffer)

-----------------------------------------------------------------------------
(* Requests *)

NoQuery ==
    [code |-> Undefined, error |-> Undefined, state |-> Undefined,
     refresh_token |-> Undefined]

\* A state value /login can have issued, and one it never issues.
IssuableState == ToHex([i \in 1..StateLength |-> 255])
ForeignState == "abc"

\* /callback queries: every mix of absent, empty and given code and error
\* without a state, and each state value with and without code and error.
CallbackQueries ==
    [code : {Undefined, "", "AUTH_CODE"},
     error : {Undefined, "", "access_denied"},
     state : {Undefined},
     refresh_token : {Undefined}]
    \cup
    [code : {Undefined, "AUTH_CODE"},
     error : {Undefined, "access_denied"},
     state : {"", ForeignState, IssuableState},
     refresh_token : {Undefined}]

RefreshQueries ==
    {[NoQuery EXCEPT !.refresh_token = t] : t \in {Undefined, "", "REFRESH"}}

QueriesOf(path) ==
    CASE path = "/callback" -> CallbackQueries
      [] path = "/refresh_token" -> RefreshQueries
      [] OTHER -> {NoQuery}

Paths ==
    {"/", "/health", "/login", "/callback", "/refresh_token", "/nonexistent"}

\* Every GET request above, and every path under HEAD and POST.
Requests ==
    UNION {[method : {"GET"}, path : {p}, query : QueriesOf(p)] : p \in Paths}
    \cup
    [method : {"HEAD", "POST"}, path : Paths, query : {NoQuery}]
    \cup
    [method : {"HEAD", "POST"}, path : {"/callback"},
     query : {[NoQuery EXCEPT !.code = "AUTH_CODE"]}]

NoRequest == [method |-> Undefined, path |-> Undefined, query |-> NoQuery]

-----------------------------------------------------------------------------
(* Responses *)

BodyFields ==
    {"success", "error", "message", "state", "access_token", "token_type",
     "scope", "expires_in", "refresh_token", "name", "endpoints", "status",
     "timestamp"}

\* A JSON body: the fields given; a field that is undefined is not sent.
NoBody == [f \in BodyFields |-> Undefined]

NoLocation ==
    [base |-> Undefined, response_type |-> Undefined, client_id |-> Undefined,
     scope |-> Undefined, redirect_uri |-> Undefined, state |-> Undefined]

\* res.status(status).json(body)
Json(status, body) ==
    [status |-> status, location |-> NoLocation, body |-> body @@ NoBody]

\* res.redirect(url): 302 Found
Redirect(url) == [status |-> 302, location |-> url, body |-> NoBody]

NoResponse == [status |-> 0, location |-> NoLocation, body |-> NoBody]

-----------------------------------------------------------------------------
(* The token endpoint *)

NoParams ==
    [grant_type |-> Undefined, code |-> Undefined, redirect_uri |-> Undefined,
     refresh_token |-> Undefined]

NoCall ==
    [url |-> Undefined, method |-> Undefined, contentType |-> Undefined,
     authorization |-> Undefined, body |-> NoParams]

\* Buffer.from(text).toString('base64'), kept symbolic.
Base64(text) == "base64(" \o text \o ")"

\* requestSpotifyTokens: the one POST it sends.
requestSpotifyTokens(cfg, body) ==
    [url |-> TokenUrl,
     method |-> "POST",
     contentType |-> "application/x-www-form-urlencoded",
     authorization |->
        "Basic " \o Base64(cfg.CLIENT_ID \o ":" \o cfg.CLIENT_SECRET),
     body |-> body]

NoData ==
    [error |-> Undefined, error_description |-> Undefined,
     access_token |-> Undefined, token_type |-> Undefined,
     scope |-> Undefined, expires_in |-> Undefined,
     refresh_token |-> Undefined]

TokenData ==
    [NoData EXCEPT !.access_token = "ACCESS", !.token_type = "Bearer",
                   !.scope = "user-read-private", !.expires_in = "3600"]

\* The JSON objects the token endpoint is taken to answer with.
ProviderData ==
    {[TokenData EXCEPT !.refresh_token = "REFRESH_2"],
     TokenData,
     [NoData EXCEPT !.error = "invalid_grant",
                    !.error_description = "Invalid authorization code"],
     [NoData EXCEPT !.error = "invalid_client"],
     [NoData EXCEPT !.error = "invalid_request", !.error_description = ""],
     [TokenData EXCEPT !.error = "invalid_grant",
                       !.error_description = "Refresh token revoked"],
     NoData}

\* How `await requestSpotifyTokens(body)` can settle: fetch rejects, the
\* body is not JSON and response.json() rejects, or a JSON value arrives
\* (null, or an object).
Replies ==
    {[kind |-> "network_error",
      message |-> "request to " \o TokenUrl \o " failed",
      data |-> NoData],
     [kind |-> "invalid_json",
      message |-> "invalid json response body at " \o TokenUrl,
      data |-> NoData],
     [kind |-> "json_null", message |-> Undefined, data |-> NoData]}
    \cup
    {[kind |-> "json", message |-> Undefined, data |-> d] : d \in ProviderData}

NoReply == [kind |-> Undefined, message |-> Undefined, data |-> NoData]

\* Whether the awaited call throws into the handler's catch block.
Throws(reply) == reply.kind \in {"network_error", "invalid_json", "json_null"}

\* err.message in the catch block; reading `.error` of null is a TypeError.
ErrMessage(reply) ==
    IF reply.kind = "json_null"
    THEN "Cannot read properties of null (reading 'error')"
    ELSE reply.message

-----------------------------------------------------------------------------
(* Middleware and route dispatch *)

\* Mutant of RequireEnv: the guard also lets /login through unchecked.
RequireEnvSkipsLogin(cfg, req) ==
    /\ req.path \notin {"/health", "/", "/login"}
    /\ ~Truthy(cfg.CLIENT_ID) \/ ~Truthy(cfg.CLIENT_SECRET)
          \/ ~Truthy(cfg.REDIRECT_URI)

\* The environment guard: TRUE when it answers 500 instead of calling next().
RequireEnv(cfg, req) ==
    /\ req.path \notin {"/health", "/"}
    /\ ~Truthy(cfg.CLIENT_ID) \/ ~Truthy(cfg.CLIENT_SECRET)
          \/ ~Truthy(cfg.REDIRECT_URI)

ServerMisconfigured ==
    Json(500,
         [error |-> "server_misconfigured",
          message |->
             "SPOTIFY_CLIENT_ID, SPOTIFY_CLIENT_SECRET, and "
             \o "SPOTIFY_REDIRECT_URI must be set in environment variables."])

\* Mutant of RouteMatches: a route registered for every method (app.all).
RouteMatchesAnyMethod(req, path) == req.path = path

\* app.get(path, ...): Express runs a GET route for GET and for HEAD.
RouteMatches(req, path) == req.method \in {"GET", "HEAD"} /\ req.path = path

\* The handler the chain reaches, in the order the source registers them.
Handler(cfg, req) ==
    IF RequireEnv(cfg, req) THEN "misconfigured"
    ELSE IF RouteMatches(req, "/") THEN "home"
    ELSE IF RouteMatches(req, "/health") THEN "health"
    ELSE IF RouteMatches(req, "/login") THEN "login"
    ELSE IF RouteMatches(req, "/callback") THEN "callback"
    ELSE IF RouteMatches(req, "/refresh_token") THEN "refresh_token"
    ELSE "not_found"

-----------------------------------------------------------------------------
(* Handlers *)

HomeResponse ==
    Json(200,
         [name |-> "spotify-auth-redirect-callback",
          endpoints |->
             "GET /health, GET /login, GET /callback, GET /refresh_token"])

\* new Date().toISOString(), kept symbolic.
HealthResponse == Json(200, [status |-> "ok", timestamp |-> "<ISO-8601>"])

\* GET /login
LoginResponse(cfg, state) ==
    Redirect([base |-> AuthorizeUrl,
              response_type |-> "code",
              client_id |-> cfg.CLIENT_ID,
              scope |-> SCOPES,
              redirect_uri |-> cfg.REDIRECT_URI,
              state |-> state])

\* Mutant of CallbackBranch: the code is looked at before the error.
CallbackBranchCodeFirst(query) ==
    IF Truthy(query.code) THEN "exchange"
    ELSE IF Truthy(query.error) THEN "denied"
    ELSE "missing_code"

\* Mutant of CallbackBranch: a callback without a state is turned away.
CallbackBranchNeedsState(query) ==
    IF Truthy(query.error) THEN "denied"
    ELSE IF ~Truthy(query.code) \/ ~Truthy(query.state) THEN "missing_code"
    ELSE "exchange"

\* GET /callback up to its await: which of its three branches is taken.
CallbackBranch(query) ==
    IF Truthy(query.error) THEN "denied"
    ELSE IF ~Truthy(query.code) THEN "missing_code"
    ELSE "exchange"

CallbackDenied(query) ==
    Json(400,
         [success |-> JsonFalse,
          error |-> query.error,
          message |-> "Spotify authorization failed: " \o query.error,
          state |-> Or(query.state, Null)])

CallbackMissingCode ==
    Json(400,
         [success |-> JsonFalse,
          error |-> "missing_code",
          message |-> "No authorization code was returned by Spotify."])

CallbackBody(cfg, query) ==
    [NoParams EXCEPT !.grant_type = "authorization_code",
                     !.code = query.code,
                     !.redirect_uri = cfg.REDIRECT_URI]

\* Mutant of CallbackSettled: a provider error is reported under the
\* handler's own generic code.
CallbackSettledGeneric(reply) ==
    IF Throws(reply)
    THEN Json(500,
              [success |-> JsonFalse,
               error |-> "token_exchange_error",
               message |-> ErrMessage(reply)])
    ELSE IF Truthy(reply.data.error)
    THEN Json(400,
              [success |-> JsonFalse,
               error |-> "token_exchange_error",
               message |-> Or(reply.data.error_description,
                              "Token exchange failed.")])
    ELSE Json(200,
              [success |-> JsonTrue,
               access_token |-> reply.data.access_token,
               token_type |-> reply.data.token_type,
               scope |-> reply.data.scope,
               expires_in |-> reply.data.expires_in,
               refresh_token |-> reply.data.refresh_token])

\* GET /callback after its await: the try block's outcome, or the catch.
CallbackSettled(reply) ==
    IF Throws(reply)
    THEN Json(500,
              [success |-> JsonFalse,
               error |-> "token_exchange_error",
               message |-> ErrMessage(reply)])
    ELSE IF Truthy(reply.data.error)
    THEN Json(400,
              [success |-> JsonFalse,
               error |-> reply.data.error,
               message |-> Or(reply.data.error_description,
                              "Token exchange failed.")])
    ELSE Json(200,
              [success |-> JsonTrue,
               access_token |-> reply.data.access_token,
               token_type |-> reply.data.token_type,
               scope |-> reply.data.scope,
               expires_in |-> reply.data.expires_in,
               refresh_token |-> reply.data.refresh_token])

\* Mutant of RefreshBranch: only an absent parameter is turned away.
RefreshBranchIfAbsent(query) ==
    IF query.refresh_token = Undefined THEN "missing_refresh_token"
    ELSE "exchange"

\* GET /refresh_token up to its await.
RefreshBranch(query) ==
    IF ~Truthy(query.refresh_token) THEN "missing_refresh_token"
    ELSE "exchange"

RefreshMissingToken ==
    Json(400,
         [success |-> JsonFalse,
          error |-> "missing_refresh_token",
          message |-> "Query parameter \"refresh_token\" is required."])

RefreshBody(query) ==
    [NoParams EXCEPT !.grant_type = "refresh_token",
                     !.refresh_token = query.refresh_token]

\* Mutant of RefreshSettled: the catch block answers 400.
RefreshSettledCatch400(reply) ==
    IF Throws(reply)
    THEN Json(400,
              [success |-> JsonFalse,
               error |-> "refresh_token_error",
               message |-> ErrMessage(reply)])
    ELSE IF Truthy(reply.data.error)
    THEN Json(400,
              [success |-> JsonFalse,
               error |-> reply.data.error,
               message |-> Or(reply.data.error_description,
                              "Token refresh failed.")])
    ELSE Json(200,
              [success |-> JsonTrue,
               access_token |-> reply.data.access_token,
               token_type |-> reply.data.token_type,
               scope |-> reply.data.scope,
               expires_in |-> reply.data.expires_in,
               refresh_token |->
                  IF Truthy(reply.data.refresh_token)
                  THEN reply.data.refresh_token
                  ELSE Undefined])

\* GET /refresh_token after its await.
RefreshSettled(reply) ==
    IF Throws(reply)
    THEN Json(500,
              [success |-> JsonFalse,
               error |-> "refresh_token_error",
               message |-> ErrMessage(reply)])
    ELSE IF Truthy(reply.data.error)
    THEN Json(400,
              [success |-> JsonFalse,
               error |-> reply.data.error,
               message |-> Or(reply.data.error_description,
                              "Token refresh failed.")])
    ELSE Json(200,
              [success |-> JsonTrue,
               access_token |-> reply.data.access_token,
               token_type |-> reply.data.token_type,
               scope |-> reply.data.scope,
               expires_in |-> reply.data.expires_in,
               refresh_token |->
                  IF Truthy(reply.data.refresh_token)
                  THEN reply.data.refresh_token
                  ELSE Undefined])

NotFoundResponse(req) ==
    Json(404,
         [error |-> "not_found",
          message |->
             "Route " \o req.method \o " " \o req.path \o " not found."])

-----------------------------------------------------------------------------
(* State machine *)

\* A completed request: what it was answered, the outbound calls made on
\* its behalf, and the call and reply its answer was built from.
Done(req, resp, calls, sent, reply) ==
    [kind |-> "done", req |-> req, resp |-> resp, calls |-> calls,
     sent |-> sent, reply |-> reply]

NothingYet ==
    [kind |-> "none", req |-> NoRequest, resp |-> NoResponse, calls |-> 0,
     sent |-> NoCall, reply |-> NoReply]

Init ==
    /\ config \in Configs
    /\ inflight = EmptyBag
    /\ net = EmptyBag
    /\ last = NothingYet
    /\ issued = {}

\* The handler runs to its response without an outbound call.
Respond(req, resp) ==
    /\ last' = Done(req, resp, 0, NoCall, NoReply)
    /\ UNCHANGED <<config, inflight, net>>

\* The handler sends `body` to the token endpoint and suspends.
Suspend(req, body) ==
    /\ BagCardinality(inflight) < MaxInFlight
    /\ inflight' = inflight (+) SetToBag({[req |-> req, calls |-> 1]})
    /\ net' = net (+) SetToBag({[issuer |-> req,
                                  request |->
                                     requestSpotifyTokens(config, body)]})
    /\ UNCHANGED <<config, last>>

\* Mutant of Awaits: a settled call resumes any suspended handler.
AwaitsAny(e, c) == TRUE

\* The awaited promise is the one of the call this handler made.
Awaits(e, c) == c.issuer = e.req

\* The outbound call `c` settles with `reply` and resumes handler `e`.
Resume(e, c, resp, reply) ==
    /\ Awaits(e, c)
    /\ inflight' = inflight (-) SetToBag({e})
    /\ net' = net (-) SetToBag({c})
    /\ last' = Done(e.req, resp, e.calls, c.request, reply)
    /\ UNCHANGED <<config, issued>>

Misconfigured(req) ==
    /\ Handler(config, req) = "misconfigured"
    /\ Respond(req, ServerMisconfigured)
    /\ UNCHANGED issued

Home(req) ==
    /\ Handler(config, req) = "home"
    /\ Respond(req, HomeResponse)
    /\ UNCHANGED issued

Health(req) ==
    /\ Handler(config, req) = "health"
    /\ Respond(req, HealthResponse)
    /\ UNCHANGED issued

Login(req) ==
    /\ Handler(config, req) = "login"
    /\ \E buffer \in randomBytes(StateLength) :
          LET state == generateState(buffer)
          IN  /\ Respond(req, LoginResponse(config, state))
              /\ issued' = issued \cup {state}

CallbackRejected(req) ==
    /\ Handler(config, req) = "callback"
    /\ CallbackBranch(req.query) # "exchange"
    /\ Respond(req,
               IF CallbackBranch(req.query) = "denied"
               THEN CallbackDenied(req.query)
               ELSE CallbackMissingCode)
    /\ UNCHANGED issued

CallbackExchange(req) ==
    /\ Handler(config, req) = "callback"
    /\ CallbackBranch(req.query) = "exchange"
    /\ Suspend(req, CallbackBody(config, req.query))
    /\ UNCHANGED issued

CallbackResume(e, c, reply) ==
    /\ e.req.path = "/callback"
    /\ Resume(e, c, CallbackSettled(reply), reply)

RefreshRejected(req) ==
    /\ Handler(config, req) = "refresh_token"
    /\ RefreshBranch(req.query) # "exchange"
    /\ Respond(req, RefreshMissingToken)
    /\ UNCHANGED issued

RefreshExchange(req) ==
    /\ Handler(config, req) = "refresh_token"
    /\ RefreshBranch(req.query) = "exchange"
    /\ Suspend(req, RefreshBody(req.query))
    /\ UNCHANGED issued

RefreshResume(e, c, reply) ==
    /\ e.req.path = "/refresh_token"
    /\ Resume(e, c, RefreshSettled(reply), reply)

NotFound(req) ==
    /\ Handler(config, req) = "not_found"
    /\ Respond(req, NotFoundResponse(req))
    /\ UNCHANGED issued

Next ==
    \/ \E req \in Requests : Misconfigured(req)
    \/ \E req \in Requests : Home(req)
    \/ \E req \in Requests : Health(req)
    \/ \E req \in Requests : Login(req)
    \/ \E req \in Requests : CallbackRejected(req)
    \/ \E req \in Requests : CallbackExchange(req)
    \/ \E req \in Requests : RefreshRejected(req)
    \/ \E req \in Requests : RefreshExchange(req)
    \/ \E req \in Requests : NotFound(req)
    \/ \E e \in BagToSet(inflight), c \in BagToSet(net), reply \in Replies :
          CallbackResume(e, c, reply)
    \/ \E e \in BagToSet(inflight), c \in BagToSet(net), reply \in Replies :
          RefreshResume(e, c, reply)

Spec == Init /\ [][Next]_vars

-----------------------------------------------------------------------------
(* Vocabulary of the properties *)

\* A value that is present and not empty.
Given(v) == v # Undefined /\ v # Null /\ v # ""

ConfigSet ==
    Given(config.CLIENT_ID) /\ Given(config.CLIENT_SECRET)
    /\ Given(config.REDIRECT_URI)

Completed == last.kind = "done"

\* The last completed request was answered after an outbound call settled.
Exchanged == Completed /\ last.reply.kind # Undefined

RoutePaths == {"/", "/health", "/login", "/callback", "/refresh_token"}

TokenFields ==
    {"access_token", "token_type", "scope", "expires_in", "refresh_token"}

ProviderErrorCodes == {d.error : d \in ProviderData} \ {Undefined}

\* A /callback query carrying a code and no error, a /refresh_token query
\* carrying a refresh token.
AsksForTokens(req) ==
    \/ /\ req.path = "/callback"
       /\ Given(req.query.code)
       /\ ~Given(req.query.error)
    \/ /\ req.path = "/refresh_token"
       /\ Given(req.query.refresh_token)

\* The form body a request's one outbound call has to carry.
CarriesRequestOf(call, req) ==
    /\ call.url = TokenUrl
    /\ call.method = "POST"
    /\ IF req.path = "/callback"
       THEN /\ call.body.grant_type = "authorization_code"
            /\ call.body.code = req.query.code
            /\ call.body.redirect_uri = config.REDIRECT_URI
            /\ call.body.refresh_token = Undefined
       ELSE /\ call.body.grant_type = "refresh_token"
            /\ call.body.refresh_token = req.query.refresh_token
            /\ call.body.code = Undefined

-----------------------------------------------------------------------------
(* C1 *)

\* C1: when CLIENT_ID, CLIENT_SECRET or REDIRECT_URI is missing, every
\* request to a path other than / and /health is answered 500
\* server_misconfigured, with no redirect, no validation error, no 404 and
\* no outbound call, and no handler is ever suspended on the provider; the
\* guard never answers a request to / or /health, and the routes GET / and
\* GET /health still answer 200.
C1_MisconfiguredBeforeRoutes ==
    ~ConfigSet =>
       /\ inflight = EmptyBag
       /\ net = EmptyBag
       /\ Completed /\ last.req.path \notin {"/", "/health"} =>
             /\ last.resp.status = 500
             /\ last.resp.body.error = "server_misconfigured"
             /\ last.resp.body.success = Undefined
             /\ last.resp.location = NoLocation
             /\ last.calls = 0
             /\ last.sent = NoCall
       /\ Completed /\ last.req.path \in {"/", "/health"} =>
             /\ last.resp.status # 500
             /\ last.resp.body.error # "server_misconfigured"
             /\ last.req.method \in {"GET", "HEAD"} => last.resp.status = 200

\* A /callback request with a code is answered 500 under a configuration
\* that lacks only the redirect URI.
C1_Witness ==
    /\ Completed
    /\ Given(config.CLIENT_ID) /\ Given(config.CLIENT_SECRET)
    /\ ~Given(config.REDIRECT_URI)
    /\ last.req.method = "GET"
    /\ last.req.path = "/callback"
    /\ Given(last.req.query.code)
    /\ last.resp.status = 500

-----------------------------------------------------------------------------
(* C2 *)

\* C2: with the configuration set, a GET /callback request with a
\* non-empty `error` is answered 400 with success=false, `error` as
\* received and `state` echoed (null when it is absent or empty), whether
\* or not a code came with it; no outbound call is made for it and its
\* handler is never suspended.
C2_CallbackErrorRelayed ==
    ConfigSet =>
       /\ \A e \in BagToSet(inflight) :
             ~(e.req.path = "/callback" /\ Given(e.req.query.error))
       /\ ( /\ Completed
            /\ last.req.method = "GET"
            /\ last.req.path = "/callback"
            /\ Given(last.req.query.error) ) =>
             /\ last.resp.status = 400
             /\ last.resp.body.success = JsonFalse
             /\ last.resp.body.error = last.req.query.error
             /\ last.resp.body.state =
                   (IF Given(last.req.query.state)
                    THEN last.req.query.state ELSE Null)
             /\ last.calls = 0
             /\ last.sent = NoCall

\* An error arriving together with a code and a state is answered 400.
C2_Witness ==
    /\ Completed
    /\ ConfigSet
    /\ last.req.method = "GET"
    /\ last.req.path = "/callback"
    /\ last.req.query.error = "access_denied"
    /\ last.req.query.code = "AUTH_CODE"
    /\ last.req.query.state = ForeignState
    /\ last.resp.status = 400
    /\ last.resp.body.state = ForeignState

-----------------------------------------------------------------------------
(* C3 *)

\* C3: with the configuration set, GET /callback with neither error nor
\* code is answered 400 missing_code and GET /refresh_token without a
\* refresh token is answered 400 missing_refresh_token, both with
\* success=false and without an outbound call.
C3_MissingInputRejected ==
    ConfigSet =>
       /\ \A e \in BagToSet(inflight) : AsksForTokens(e.req)
       /\ ( /\ Completed
            /\ last.req.method = "GET"
            /\ last.req.path = "/callback"
            /\ ~Given(last.req.query.error)
            /\ ~Given(last.req.query.code) ) =>
             /\ last.resp.status = 400
             /\ last.resp.body.success = JsonFalse
             /\ last.resp.body.error = "missing_code"
             /\ Given(last.resp.body.message)
             /\ last.calls = 0
             /\ last.sent = NoCall
       /\ ( /\ Completed
            /\ last.req.method = "GET"
            /\ last.req.path = "/refresh_token"
            /\ ~Given(last.req.query.refresh_token) ) =>
             /\ last.resp.status = 400
             /\ last.resp.body.success = JsonFalse
             /\ last.resp.body.error = "missing_refresh_token"
             /\ Given(last.resp.body.message)
             /\ last.calls = 0
             /\ last.sent = NoCall

\* A /refresh_token request whose parameter is empty is turned away while
\* another request is suspended on the provider.
C3_Witness ==
    /\ Completed
    /\ ConfigSet
    /\ last.req.method = "GET"
    /\ last.req.path = "/refresh_token"
    /\ last.req.query.refresh_token = ""
    /\ last.resp.body.error = "missing_refresh_token"
    /\ inflight # EmptyBag

-----------------------------------------------------------------------------
(* C4 *)

\* C4: with the configuration set, every GET /login is answered by a 302
\* redirect to https://accounts.spotify.com/authorize carrying
\* response_type=code, the configured client_id and redirect_uri, the fixed
\* scope list and a non-empty state that was generated for it (two hex
\* digits per random byte); it makes no outbound call and answers no error.
C4_LoginRedirects ==
    ( /\ Completed
      /\ ConfigSet
      /\ last.req.method = "GET"
      /\ last.req.path = "/login" ) =>
       /\ last.resp.status = 302
       /\ last.resp.location.base = "https://accounts.spotify.com/authorize"
       /\ last.resp.location.response_type = "code"
       /\ last.resp.location.client_id = config.CLIENT_ID
       /\ last.resp.location.redirect_uri = config.REDIRECT_URI
       /\ last.resp.location.scope = SCOPES
       /\ Given(last.resp.location.state)
       /\ Len(last.resp.location.state) = 2 * StateLength
       /\ last.resp.location.state \in issued
       /\ last.resp.body.error = Undefined
       /\ last.resp.body.success = Undefined
       /\ last.calls = 0
       /\ last.sent = NoCall

\* A second /login redirect carries a state other than the first one's.
C4_Witness ==
    /\ Completed
    /\ ConfigSet
    /\ last.req.method = "GET"
    /\ last.req.path = "/login"
    /\ last.resp.status = 302
    /\ Cardinality(issued) > 1

-----------------------------------------------------------------------------
(* C5 *)

\* The default message of the route that answered.
DefaultMessage(req) ==
    IF req.path = "/callback" THEN "Token exchange failed."
    ELSE "Token refresh failed."

\* C5: when the token endpoint's JSON body carries an error, /callback and
\* /refresh_token answer 400 with success=false, the provider's error code
\* as `error` and the provider's error_description as `message`, the
\* route's default message standing in only for a description that is
\* missing or empty; the response carries no token field.
C5_ProviderErrorRelayed ==
    ( /\ Exchanged
      /\ last.reply.kind = "json"
      /\ Given(last.reply.data.error) ) =>
       /\ last.req.path \in {"/callback", "/refresh_token"}
       /\ last.resp.status = 400
       /\ last.resp.body.success = JsonFalse
       /\ last.resp.body.error = last.reply.data.error
       /\ last.resp.body.message =
             (IF Given(last.reply.data.error_description)
              THEN last.reply.data.error_description
              ELSE DefaultMessage(last.req))
       /\ \A f \in TokenFields : last.resp.body[f] = Undefined

\* /callback relays invalid_grant from a body that also carries tokens.
C5_Witness ==
    /\ Exchanged
    /\ last.req.path = "/callback"
    /\ last.reply.data.error = "invalid_grant"
    /\ Given(last.reply.data.access_token)
    /\ last.resp.status = 400
    /\ last.resp.body.error = "invalid_grant"

-----------------------------------------------------------------------------
(* C6 *)

\* The generic error code of the route that answered.
GenericCode(req) ==
    IF req.path = "/callback" THEN "token_exchange_error"
    ELSE "refresh_token_error"

\* C6: when the outbound call fails in transport (fetch rejects, or the
\* body is not JSON), /callback answers 500 token_exchange_error and
\* /refresh_token answers 500 refresh_token_error, with success=false; the
\* code is none of the provider's, and the answer is neither 400 nor a
\* success.
C6_TransportFailureIs500 ==
    ( /\ Exchanged
      /\ last.reply.kind \in {"network_error", "invalid_json"} ) =>
       /\ last.req.path \in {"/callback", "/refresh_token"}
       /\ last.resp.status = 500
       /\ last.resp.body.success = JsonFalse
       /\ last.resp.body.error = GenericCode(last.req)
       /\ last.resp.body.error \notin ProviderErrorCodes
       /\ last.resp.body.message = last.reply.message
       /\ \A f \in TokenFields : last.resp.body[f] = Undefined

\* /refresh_token answers 500 to a body that is not JSON.
C6_Witness ==
    /\ Exchanged
    /\ last.req.path = "/refresh_token"
    /\ last.reply.kind = "invalid_json"
    /\ last.resp.status = 500
    /\ last.resp.body.error = "refresh_token_error"

-----------------------------------------------------------------------------
(* C7 *)

\* C7: a 200 success=true answer of /callback or /refresh_token carries
\* the access_token, token_type, scope and expires_in of the provider's
\* response, and is never given for a provider response without an
\* access_token.
C7_SuccessCarriesTokens ==
    ( /\ Exchanged
      /\ last.resp.status = 200
      /\ last.resp.body.success = JsonTrue ) =>
       /\ last.resp.body.access_token = last.reply.data.access_token
       /\ last.resp.body.token_type = last.reply.data.token_type
       /\ last.resp.body.scope = last.reply.data.scope
       /\ last.resp.body.expires_in = last.reply.data.expires_in
       /\ Given(last.reply.data.access_token)

-----------------------------------------------------------------------------
(* C8 *)

\* C8 as stated: with the configuration set, a request that is not a GET
\* of one of the five routes, any other method on their paths included, is
\* answered 404 not_found without an outbound call.
C8_AsStated ==
    ConfigSet =>
       /\ \A e \in BagToSet(inflight) :
             e.req.method = "GET" /\ e.req.path \in RoutePaths
       /\ ( /\ Completed
            /\ ~(last.req.method = "GET" /\ last.req.path \in RoutePaths) ) =>
             /\ last.resp.status = 404
             /\ last.resp.body.error = "not_found"
             /\ Given(last.resp.body.message)
             /\ last.calls = 0

\* C8, amended: with the configuration set, a request whose path is none
\* of the five routes', or whose method is neither GET nor HEAD, is
\* answered 404 not_found with a message and without an outbound call; a
\* HEAD request to a route's path is served by the route.
C8_UnroutedIs404 ==
    ConfigSet =>
       /\ \A e \in BagToSet(inflight) :
             e.req.method \in {"GET", "HEAD"} /\ e.req.path \in RoutePaths
       /\ ( /\ Completed
            /\ ~( /\ last.req.method \in {"GET", "HEAD"}
                  /\ last.req.path \in RoutePaths ) ) =>
             /\ last.resp.status = 404
             /\ last.resp.body.error = "not_found"
             /\ Given(last.resp.body.message)
             /\ last.resp.body.success = Undefined
             /\ last.calls = 0
             /\ last.sent = NoCall
       /\ ( /\ Completed
            /\ last.req.method = "HEAD"
            /\ last.req.path \in RoutePaths ) =>
             last.resp.status # 404

\* A POST to /callback with a code is answered 404.
C8_Witness ==
    /\ Completed
    /\ ConfigSet
    /\ last.req.method = "POST"
    /\ last.req.path = "/callback"
    /\ Given(last.req.query.code)
    /\ last.resp.status = 404

-----------------------------------------------------------------------------
(* C9 *)

\* Every suspended handler has exactly one outbound call pending, its own,
\* and no call is pending that no suspended handler made.
OneCallPerHandler ==
    /\ BagCardinality(net) = BagCardinality(inflight)
    /\ BagCardinality(inflight) <= MaxInFlight
    /\ \A e \in BagToSet(inflight) :
          /\ e.calls = 1
          /\ \E c \in BagToSet(net) :
                /\ c.issuer = e.req
                /\ CarriesRequestOf(c.request, e.req)
                /\ CopiesIn(c, net) = CopiesIn(e, inflight)

\* C9 as stated: a request makes at most one outbound call; exactly one
\* for a /callback request with a code and no error and for a
\* /refresh_token request with a refresh token, none for any other; the
\* call is not retried and its result goes to the request that made it.
C9_AsStated ==
    /\ OneCallPerHandler
    /\ Completed =>
          /\ last.calls = (IF AsksForTokens(last.req) THEN 1 ELSE 0)
          /\ last.calls = 1 => CarriesRequestOf(last.sent, last.req)

\* C9, amended: over every interleaving a request makes at most one
\* outbound call, never a second one after a provider error or a transport
\* failure; with the configuration set, exactly one for a GET or HEAD
\* request to /callback with a non-empty code and no non-empty error or to
\* /refresh_token with a non-empty refresh token; none for any other
\* request, nor for any request while the configuration is incomplete; and
\* the answer of a request is built from the result of its own call.
C9_OneCallNoRetry ==
    /\ OneCallPerHandler
    /\ \A e \in BagToSet(inflight) :
          /\ ConfigSet
          /\ e.req.method \in {"GET", "HEAD"}
          /\ AsksForTokens(e.req)
    /\ Completed =>
          /\ last.calls =
                (IF /\ ConfigSet
                    /\ last.req.method \in {"GET", "HEAD"}
                    /\ AsksForTokens(last.req)
                 THEN 1 ELSE 0)
          /\ last.calls = 1 <=> Exchanged
          /\ last.calls = 1 => CarriesRequestOf(last.sent, last.req)
          /\ last.calls = 0 => last.sent = NoCall

\* A /callback request is answered 500 after its one call failed, while a
\* /refresh_token request is still waiting for its own call.
C9_Witness ==
    /\ Exchanged
    /\ last.req.path = "/callback"
    /\ last.reply.kind = "network_error"
    /\ last.calls = 1
    /\ BagCardinality(net) = 1
    /\ \E e \in BagToSet(inflight) : e.req.path = "/refresh_token"

-----------------------------------------------------------------------------
(* C10 *)

\* Two /callback requests that differ at most in their `state` parameter.
SameButState(r1, r2) ==
    /\ r1.path = "/callback"
    /\ r2.path = "/callback"
    /\ r1.method = r2.method
    /\ r1.query.code = r2.query.code
    /\ r1.query.error = r2.query.error
    /\ r1.query.refresh_token = r2.query.refresh_token

\* A response without the `state` field of its body.
StateMasked(resp) == [resp EXCEPT !.body.state = Undefined]

\* The state parameter shows only as the echo in the 400 of the error
\* branch.
StateOnlyEchoed ==
    (Completed /\ last.req.path = "/callback") =>
       IF last.calls = 0 /\ last.resp.status = 400
          /\ Given(last.req.query.error)
       THEN last.resp.body.state \in {last.req.query.state, Null}
       ELSE last.resp.body.state = Undefined

\* From one completed request to the next: /callback requests that differ
\* only in `state` make the same calls with the same exchange request and,
\* given the same reply, get the same answer up to the echoed state; and a
\* request other than /login that repeats an earlier one, with the same
\* reply, gets the same answer.
StateNeverDecides ==
    (Completed /\ last'.kind = "done") =>
       /\ SameButState(last.req, last'.req) =>
             /\ last'.calls = last.calls
             /\ last'.sent = last.sent
             /\ last'.reply = last.reply =>
                   StateMasked(last'.resp) = StateMasked(last.resp)
       /\ ( /\ last'.req = last.req
            /\ last'.reply = last.reply
            /\ last.req.path # "/login" ) =>
             last'.resp = last.resp

\* C10: the state token is neither stored nor validated: whatever /login
\* and /callback requests came before, a /callback request's status, error
\* code, outbound call and exchange request are the same for every value of
\* `state`, issued by /login or not; `state` shows only as the echo in the
\* 400 of the error branch, and no response depends on earlier requests.
C10_StateNotValidated == []StateOnlyEchoed /\ [][StateNeverDecides]_vars

\* After /login issued a state, a /callback carrying a state that was
\* never issued is answered 200 with the provider's tokens.
C10_Witness ==
    /\ Exchanged
    /\ issued # {}
    /\ last.req.path = "/callback"
    /\ last.req.query.state = ForeignState
    /\ last.req.query.state \notin issued
    /\ last.resp.status = 200
    /\ Given(last.resp.body.access_token)

=============================================================================
